---- MODULE Spec2Model ----
(***************************************************************************)
(* A model of the rust-crdt vector clock (src/src/vclock.rs) and of the    *)
(* LSeq sequence CRDT (src/src/lseq/mod.rs).                               *)
(*                                                                         *)
(* The specifications share the variables of the module:                 *)
(*   Spec          one LSeq replica driven by apply(Insert) / apply(Delete)*)
(*   SpecReplicas  two LSeq replicas that exchange the operations          *)
(*   SpecAny       one LSeq replica, Insert and Delete with any arguments  *)
(*   SpecClock     three vector clocks driven by witness/increment/merge   *)
(*   SpecClockOps  two vector clocks driven by the operations of VClock,   *)
(*                 the last call and its result recorded                   *)
(*   SpecFromIter  a vector clock collected from a list of dots            *)
(*                                                                         *)
(* Integers: TLC's integers are 32 bits wide, so u64::MAX (END_ID) is      *)
(* represented by the largest integer TLC has.  Every other number of the  *)
(* model is far below it; a computation that would leave the range makes   *)
(* TLC stop with an error instead of wrapping silently.                    *)
(***************************************************************************)
EXTENDS Integers, Sequences, FiniteSets, TLC

(***************************************************************************)
(* Bounds of the model.                                                    *)
(***************************************************************************)
\* operations applied to the replica of Spec
MaxOps == 5
\* gen_range(low, high) returns one of the MaxDraw lowest or MaxDraw highest
\* numbers of low .. high-1
MaxDraw == 1
\* operations applied to the replica of SpecAny
MaxAnyOps == 4
\* operations proposed in SpecReplicas
MaxNetOps == 2
\* operations proposed in SpecOnce
MaxOnceOps == 3
\* largest counter handed to witness, and cap of increment, in SpecClock and
\* SpecClockOps (SpecClockOps also hands COUNTER_MAX to witness)
MaxCounter == 2
\* longest list of dots handed to from_iter
MaxDots == 3

(***************************************************************************)
(* Program constants.                                                      *)
(***************************************************************************)
DEFAULT_STRATEGY_BOUNDARY == 10
DEFAULT_ROOT_BASE == 32
BEGIN_ID == 0
\* std::u64::MAX, represented by the largest integer of TLC
END_ID == 2147483647
\* width of u64: a shift by this many bits or more overflows
U64_BITS == 64
\* the largest Counter (u64::MAX), represented like END_ID
COUNTER_MAX == END_ID

\* the actors (A: Ord), in their order
Actors == {1, 2}
\* identifiers that address no entry of the tree (test_insert_nonexisting_id
\* hands such an identifier to insert): two neighbours below the root label 1
ExtraIds == {<<1, 4>>, <<1, 5>>}

VARIABLES
    checked,    \* the build: TRUE when overflow checks are compiled in (debug)
    tree,       \* LSeq.tree of the replica of Spec
    before,     \* LSeq.tree as it was when the last apply was called
    lastOp,     \* the Op handed to the last apply
    status,     \* "running", or the panic that ended the last apply
    nops,       \* number of apply calls so far
    rtree,      \* SpecReplicas: LSeq.tree of each replica
    rbefore,    \* SpecReplicas: each replica's tree before its last apply
    rlog,       \* SpecReplicas: the operations each replica applied, in order
    rstatus,    \* SpecReplicas: "running" or the panic of each replica
    net,        \* SpecReplicas: the operations broadcast so far
    ca, cb, cc, \* SpecClock: three vector clocks
    cop         \* SpecClockOps: the last call on the clocks and what it returned

vars == <<checked, tree, before, lastOp, status, nops,
          rtree, rbefore, rlog, rstatus, net, ca, cb, cc, cop>>
lseqVars == <<tree, before, lastOp, status, nops>>
replicaVars == <<rtree, rbefore, rlog, rstatus, net>>
clockVars == <<ca, cb, cc, cop>>

(***************************************************************************)
(* Helpers: BTreeMap as a function with a finite domain.                   *)
(***************************************************************************)
\* BTreeMap::new()
EmptyMap == [x \in {} |-> 0]

\* BTreeMap::insert(k, v): adds the key or overwrites its value
MapInsert(m, k, v) == [x \in (DOMAIN m) \cup {k} |-> IF x = k THEN v ELSE m[x]]

\* BTreeMap::remove(k)
MapRemove(m, k) == [x \in (DOMAIN m) \ {k} |-> m[x]]

\* the smallest key of a non-empty key set: BTreeMap iterates in key order
MinKey(S) == CHOOSE x \in S : \A y \in S : x <= y

\* cmp::min
Min(a, b) == IF a < b THEN a ELSE b

(***************************************************************************)
(* VClock (src/src/vclock.rs).  A clock is its dots map: actor -> counter. *)
(***************************************************************************)
\* VClock::new
VClockNew == EmptyMap

\* VClock::get: the counter of the actor, 0 when the actor is absent
get(c, actor) == IF actor \in DOMAIN c THEN c[actor] ELSE 0

\* VClock::is_empty
is_empty(c) == DOMAIN c = {}

\* a test that asks for a strictly larger stored counter
contains_strict_descendent(c, actor, counter) ==
    IF actor \in DOMAIN c THEN c[actor] > counter ELSE FALSE

\* VClock::contains_descendent_element
contains_descendent_element(c, actor, counter) ==
    IF actor \in DOMAIN c THEN c[actor] >= counter ELSE FALSE

\* a witness that stores the dot whether or not the clock already dominates it
witness_overwrite(c, actor, counter) ==
    [dots |-> MapInsert(c, actor, counter), ok |-> TRUE]

\* VClock::witness: the clock afterwards and whether the result is Ok
witness(c, actor, counter) ==
    IF ~contains_descendent_element(c, actor, counter)
    THEN [dots |-> MapInsert(c, actor, counter), ok |-> TRUE]
    ELSE [dots |-> c, ok |-> FALSE]

\* VClock::increment: [dots, next, r], the clock afterwards, the counter
\* returned and "ok" or the panic.  get + 1 is a u64 addition: at u64::MAX it
\* panics where overflow checks are compiled in and wraps to 0 otherwise.
increment(c, actor, chk) ==
    IF get(c, actor) = COUNTER_MAX
    THEN IF chk
         THEN [dots |-> c, next |-> 0, r |-> "attempt to add with overflow"]
         ELSE [dots |-> MapInsert(c, actor, 0), next |-> 0, r |-> "ok"]
    ELSE [dots |-> MapInsert(c, actor, get(c, actor) + 1),
          next |-> get(c, actor) + 1, r |-> "ok"]

\* the loop of VClock::merge over the dots of other not yet visited
RECURSIVE merge_loop(_, _, _)
merge_loop(self, other, todo) ==
    IF todo = {} THEN self
    ELSE LET actor == MinKey(todo)
         IN merge_loop(witness(self, actor, other[actor]).dots, other,
                       todo \ {actor})

\* a merge that takes over the other clock instead of witnessing its dots
merge_assign(self, other) == other

\* VClock::merge: the clock self afterwards
merge(self, other) == merge_loop(self, other, DOMAIN other)

\* a comparison whose last test asks self, not other, for the dots of self
partial_cmp_self_test(self, other) ==
    IF self = other THEN "Equal"
    ELSE IF \A w \in DOMAIN other :
                contains_descendent_element(self, w, other[w])
    THEN "Greater"
    ELSE IF \A w \in DOMAIN self :
                contains_descendent_element(self, w, self[w])
    THEN "Less"
    ELSE "None"

\* PartialOrd::partial_cmp for VClock: "Equal", "Greater", "Less" for
\* Some(Ordering), "None" for None
partial_cmp(self, other) ==
    IF self = other THEN "Equal"
    ELSE IF \A w \in DOMAIN other :
                contains_descendent_element(self, w, other[w])
    THEN "Greater"
    ELSE IF \A w \in DOMAIN self :
                contains_descendent_element(other, w, self[w])
    THEN "Less"
    ELSE "None"

\* the operators <, >, <=, >= that PartialOrd derives from partial_cmp
lt(self, other) == partial_cmp(self, other) = "Less"
gt(self, other) == partial_cmp(self, other) = "Greater"
le(self, other) == partial_cmp(self, other) \in {"Less", "Equal"}
ge(self, other) == partial_cmp(self, other) \in {"Greater", "Equal"}

\* VClock::concurrent
concurrent(self, other) == partial_cmp(self, other) = "None"

\* the loop of VClock::glb over the dots of a not yet visited
RECURSIVE glb_loop(_, _, _, _)
glb_loop(a, b, glb_vclock, todo) ==
    IF todo = {} THEN glb_vclock
    ELSE LET actor == MinKey(todo)
             min_cntr == Min(get(b, actor), a[actor])
         IN glb_loop(a, b,
                     IF min_cntr > 0 THEN MapInsert(glb_vclock, actor, min_cntr)
                     ELSE glb_vclock,
                     todo \ {actor})

\* a glb that stores every minimum, the zeros too
glb_storing_zero(a, b) == [actor \in DOMAIN a |-> Min(get(b, actor), a[actor])]

\* VClock::glb
glb(a, b) == glb_loop(a, b, VClockNew, DOMAIN a)

\* the first loop of VClock::truncate over the dots of self not yet visited:
\* [dots, actors_to_remove]
RECURSIVE truncate_loop(_, _, _, _)
truncate_loop(self, other, actors_to_remove, todo) ==
    IF todo = {} THEN [dots |-> self, actors_to_remove |-> actors_to_remove]
    ELSE LET actor == MinKey(todo)
             min_count == Min(self[actor], get(other, actor))
         IN IF min_count > 0
            THEN truncate_loop(MapInsert(self, actor, min_count), other,
                               actors_to_remove, todo \ {actor})
            ELSE truncate_loop(self, other, Append(actors_to_remove, actor),
                               todo \ {actor})

\* the second loop of VClock::truncate: remove the actors from position i on
RECURSIVE truncate_remove(_, _, _)
truncate_remove(self, actors_to_remove, i) ==
    IF i > Len(actors_to_remove) THEN self
    ELSE truncate_remove(MapRemove(self, actors_to_remove[i]),
                         actors_to_remove, i + 1)

\* VClock::truncate: the clock self afterwards
truncate(self, other) ==
    LET first == truncate_loop(self, other, <<>>, DOMAIN self)
    IN truncate_remove(first.dots, first.actors_to_remove, 1)

\* the loop of VClock::intersection over the dots of self not yet visited
RECURSIVE intersection_loop(_, _, _, _)
intersection_loop(self, other, dots, todo) ==
    IF todo = {} THEN dots
    ELSE LET actor == MinKey(todo)
             other_counter == get(other, actor)
         IN intersection_loop(self, other,
                              IF other_counter = self[actor]
                              THEN MapInsert(dots, actor, self[actor])
                              ELSE dots,
                              todo \ {actor})

\* VClock::intersection
intersection(self, other) ==
    intersection_loop(self, other, EmptyMap, DOMAIN self)

\* the loop of VClock::subtract over the dots of other not yet visited
RECURSIVE subtract_loop(_, _, _)
subtract_loop(self, other, todo) ==
    IF todo = {} THEN self
    ELSE LET actor == MinKey(todo)
         IN subtract_loop(IF other[actor] >= get(self, actor)
                          THEN MapRemove(self, actor) ELSE self,
                          other, todo \ {actor})

\* a subtract that removes every actor of other
subtract_all(self, other) == [x \in (DOMAIN self) \ (DOMAIN other) |-> self[x]]

\* VClock::subtract: the clock self afterwards
subtract(self, other) == subtract_loop(self, other, DOMAIN other)

\* the loop of FromIterator::from_iter from position i of the items on
RECURSIVE from_iter_loop(_, _, _)
from_iter_loop(c, iter, i) ==
    IF i > Len(iter) THEN c
    ELSE from_iter_loop(witness(c, iter[i][1], iter[i][2]).dots, iter, i + 1)

\* a from_iter that inserts every item, whatever the clock holds
RECURSIVE from_iter_insert_loop(_, _, _)
from_iter_insert_loop(c, iter, i) ==
    IF i > Len(iter) THEN c
    ELSE from_iter_insert_loop(MapInsert(c, iter[i][1], iter[i][2]), iter, i + 1)

from_iter_insert(iter) == from_iter_insert_loop(VClockNew, iter, 1)

\* FromIterator<(A, u64)>::from_iter for VClock: iter is the sequence of the
\* <<actor, counter>> items
from_iter(iter) == from_iter_loop(VClockNew, iter, 1)

\* the loop of IntoIterator::into_iter for VClock: the dots in key order
RECURSIVE into_iter_loop(_, _)
into_iter_loop(c, todo) ==
    IF todo = {} THEN <<>>
    ELSE LET actor == MinKey(todo)
         IN <<<<actor, c[actor]>>>> \o into_iter_loop(c, todo \ {actor})

\* IntoIterator::into_iter for VClock
into_iter(c) == into_iter_loop(c, DOMAIN c)

(***************************************************************************)
(* Identifier, Atom and Siblings (the nodes module of lseq).               *)
(* An Identifier is the sequence of its labels, root first.  An            *)
(* Option<Identifier> is <<>> for None and <<id>> for Some(id).            *)
(* Siblings is a map label -> <<clock, atom>>.                             *)
(***************************************************************************)
\* Identifier::len
len(id) == Len(id)

\* Identifier::at(depth), valid for depth < len
at(id, depth) == id[depth + 1]

\* Identifier::push(label)
push(id, label) == Append(id, label)

None == <<>>
Some(id) == <<id>>

\* Atom::Leaf(value)
Leaf(v) == [kind |-> "Leaf", v |-> v, s |-> EmptyMap]

\* Atom::Node((value, children))
Node(v, s) == [kind |-> "Node", v |-> v, s |-> s]

\* Siblings::new
SiblingsNew == EmptyMap

\* a walk that removes the entry at the last label only when it is a Leaf
RECURSIVE delete_walk_leaf_only(_, _, _)
delete_walk_leaf_only(siblings, id, d) ==
    IF d >= len(id) \/ at(id, d) \notin DOMAIN siblings THEN siblings
    ELSE LET e == siblings[at(id, d)]
         IN IF d = len(id) - 1
            THEN IF e[2].kind = "Leaf" THEN MapRemove(siblings, at(id, d))
                 ELSE siblings
            ELSE IF e[2].kind = "Node"
                 THEN MapInsert(siblings, at(id, d),
                                <<e[1], Node(e[2].v,
                                             delete_walk_leaf_only(e[2].s, id, d + 1))>>)
                 ELSE siblings

\* the walk of Siblings::delete_id from depth d: descend into the children of
\* each Node on the path and remove the entry at the last label
RECURSIVE delete_walk(_, _, _)
delete_walk(siblings, id, d) ==
    IF d >= len(id) \/ at(id, d) \notin DOMAIN siblings THEN siblings
    ELSE IF d = len(id) - 1 THEN MapRemove(siblings, at(id, d))
    ELSE LET e == siblings[at(id, d)]
         IN IF e[2].kind = "Node"
            THEN MapInsert(siblings, at(id, d),
                           <<e[1], Node(e[2].v, delete_walk(e[2].s, id, d + 1))>>)
            ELSE siblings

\* Siblings::delete_id
delete_id(siblings, id) == delete_walk(siblings, id, 0)

(***************************************************************************)
(* LSeq (src/src/lseq/mod.rs).                                             *)
(***************************************************************************)
\* LSeq::new: boundary, root_arity and the empty tree
boundary == DEFAULT_STRATEGY_BOUNDARY
root_arity == DEFAULT_ROOT_BASE

\* LSeq::get_deterministic_strategy: TRUE is boundary+, FALSE is boundary-
get_deterministic_strategy(depth) == depth % 2 = 0

\* LSeq::arity_at
arity_at(depth) == root_arity * (2 ^ depth)

\* floor(log2(x)) of x >= 1
RECURSIVE floor_log2(_)
floor_log2(x) == IF x <= 1 THEN 0 ELSE 1 + floor_log2(x \div 2)

\* num_of_binary_digits!: (x as f64).log2().floor() as u32 + 1.
\* log2(0.0) is -inf, which the cast to u32 turns into 0.  u64::MAX as f64 is
\* rounded to 2^64, whose log2 is 64.
num_of_binary_digits(x) ==
    IF x = 0 THEN 1
    ELSE IF x = END_ID THEN U64_BITS + 1
    ELSE floor_log2(x) + 1

\* the statements of find_new_id_depth that move a position one depth down:
\* (position << shift) + digit.  A shift of 64 bits or more panics where
\* overflow checks are compiled in (the result is -1 here) and uses the shift
\* modulo 64 otherwise.
next_position(position, id, depth, chk) ==
    LET digit == IF depth < len(id) THEN at(id, depth) ELSE arity_at(depth) - 1
        shift == IF depth < len(id) THEN num_of_binary_digits(digit)
                 ELSE floor_log2(arity_at(depth))
    IN IF shift >= U64_BITS /\ chk THEN -1
       ELSE position * (2 ^ (shift % U64_BITS)) + digit

\* a loop that gives up only past the sum of the two lengths
RECURSIVE find_loop_late_guard(_, _, _, _, _, _)
find_loop_late_guard(p, q, new_id_depth, p_position, q_position, chk) ==
    IF new_id_depth > len(p) + len(q)
    THEN [r |-> "infinite loop", depth |-> new_id_depth, interval |-> 0]
    ELSE LET pp == next_position(p_position, p, new_id_depth, chk)
             qq == next_position(q_position, q, new_id_depth, chk)
         IN IF pp < 0 \/ qq < 0
            THEN [r |-> "shift overflow", depth |-> new_id_depth, interval |-> 0]
            ELSE IF pp > qq
            THEN [r |-> "p cannot be greater than q", depth |-> new_id_depth,
                  interval |-> 0]
            ELSE IF qq - pp - 1 > 0
            THEN [r |-> "ok", depth |-> new_id_depth, interval |-> qq - pp - 1]
            ELSE find_loop_late_guard(p, q, new_id_depth + 1, pp, qq, chk)

\* the loop of LSeq::find_new_id_depth: [r, depth, interval], r being "ok" or
\* the panic
RECURSIVE find_loop(_, _, _, _, _, _)
find_loop(p, q, new_id_depth, p_position, q_position, chk) ==
    IF new_id_depth > len(p) /\ new_id_depth > len(q)
    THEN [r |-> "infinite loop", depth |-> new_id_depth, interval |-> 0]
    ELSE LET pp == next_position(p_position, p, new_id_depth, chk)
             qq == next_position(q_position, q, new_id_depth, chk)
         IN IF pp < 0 \/ qq < 0
            THEN [r |-> "shift overflow", depth |-> new_id_depth, interval |-> 0]
            ELSE IF pp > qq
            THEN [r |-> "p cannot be greater than q", depth |-> new_id_depth,
                  interval |-> 0]
            ELSE IF qq - pp - 1 > 0
            THEN [r |-> "ok", depth |-> new_id_depth, interval |-> qq - pp - 1]
            ELSE find_loop(p, q, new_id_depth + 1, pp, qq, chk)

\* LSeq::find_new_id_depth
find_new_id_depth(p, q, chk) == find_loop(p, q, 0, 0, 0, chk)

\* thread_rng().gen_range(low, high): any number of low .. high-1; the model
\* draws among the MaxDraw lowest and the MaxDraw highest of them
gen_range(low, high) ==
    {n \in low .. (high - 1) : n - low < MaxDraw \/ (high - 1) - n < MaxDraw}

\* a gen_new_number that always adds to the label of p
gen_new_number_from_p(depth, strategy, step, p, q) ==
    LET reference_num == IF depth < len(p) THEN at(p, depth) ELSE BEGIN_ID
    IN gen_range(reference_num + 1, reference_num + step + 1)

\* a gen_new_number whose boundary+ range starts at the reference number
gen_new_number_from_reference(depth, strategy, step, p, q) ==
    IF strategy
    THEN LET reference_num == IF depth < len(p) THEN at(p, depth) ELSE BEGIN_ID
         IN gen_range(reference_num, reference_num + step + 1)
    ELSE LET reference_num == IF depth < len(q) THEN at(q, depth)
                              ELSE arity_at(depth) - 1
         IN IF reference_num - step < 0 THEN {}
            ELSE gen_range(reference_num - step, reference_num)

\* LSeq::gen_new_number: the set of numbers it can return; empty when it
\* panics (reference_num - step below 0: the subtraction overflows, or wraps
\* and gen_range is called with low >= high)
gen_new_number(depth, strategy, step, p, q) ==
    IF strategy
    THEN LET reference_num == IF depth < len(p) THEN at(p, depth) ELSE BEGIN_ID
         IN gen_range(reference_num + 1, reference_num + step + 1)
    ELSE LET reference_num == IF depth < len(q) THEN at(q, depth)
                              ELSE arity_at(depth) - 1
         IN IF reference_num - step < 0 THEN {}
            ELSE gen_range(reference_num - step, reference_num)

\* a promotion that gives the Node the default value instead of the Leaf's
promote_default(e) == <<e[1], Node(0, SiblingsNew)>>

\* a promotion that stamps the Node with an empty clock
promote_dropping_stamp(e) ==
    IF e[2].kind = "Leaf" THEN <<VClockNew, Node(e[2].v, SiblingsNew)>> ELSE e

\* the match of alloc_id on the entry of the path: a Leaf becomes a Node with
\* the same clock and value and with new, empty children; a Node stays
promote(e) ==
    IF e[2].kind = "Leaf" THEN <<e[1], Node(e[2].v, SiblingsNew)>> ELSE e

\* the loop of LSeq::alloc_id (for d in 0..new_id_depth + 1) from depth d on
\* the siblings of that depth: [s, r], the siblings afterwards and "ok" or the
\* panic.  A Leaf promoted on the way stays promoted when a deeper step panics.
RECURSIVE alloc_walk(_, _, _, _, _, _, _, _, _)
alloc_walk(cur_depth_nodes, d, new_id_depth, new_number, depth_strategy, p, q, clock, value) ==
    IF d = new_id_depth
    THEN IF new_number \notin DOMAIN cur_depth_nodes
         THEN [s |-> MapInsert(cur_depth_nodes, new_number, <<clock, Leaf(value)>>),
               r |-> "ok"]
         ELSE [s |-> cur_depth_nodes, r |-> "number was already taken"]
    ELSE LET path == IF depth_strategy THEN p ELSE q
         IN IF d >= len(path)
            THEN [s |-> cur_depth_nodes, r |-> "index out of bounds"]
            ELSE LET cur_number == at(path, d)
                 IN IF cur_number \notin DOMAIN cur_depth_nodes
                    THEN [s |-> cur_depth_nodes, r |-> "missing ancestor"]
                    ELSE LET e == promote(cur_depth_nodes[cur_number])
                             sub == alloc_walk(e[2].s, d + 1, new_id_depth,
                                               new_number, depth_strategy,
                                               p, q, clock, value)
                         IN [s |-> MapInsert(cur_depth_nodes, cur_number,
                                             <<e[1], Node(e[2].v, sub.s)>>),
                             r |-> sub.r]

\* LSeq::alloc_id: the set of the [s, r] it can end with, one for each number
\* gen_new_number can draw
alloc_id(siblings, p, q, clock, value, chk) ==
    LET found == find_new_id_depth(p, q, chk)
        step == Min(found.interval, boundary)
        depth_strategy == get_deterministic_strategy(found.depth)
        numbers == gen_new_number(found.depth, depth_strategy, step, p, q)
    IN IF found.r # "ok" THEN {[s |-> siblings, r |-> found.r]}
       ELSE IF numbers = {} THEN {[s |-> siblings, r |-> "gen_range"]}
       ELSE {alloc_walk(siblings, 0, found.depth, new_number, depth_strategy,
                        p, q, clock, value) : new_number \in numbers}

\* the loop of LSeq::flatten_tree over the labels not yet visited, in
\* ascending order; a pair of the sequence is <<Identifier, value>>
RECURSIVE flatten_loop(_, _, _)
flatten_loop(siblings, prefix, todo) ==
    IF todo = {} THEN <<>>
    ELSE LET id == MinKey(todo)
             atom == siblings[id][2]
             new_prefix == push(prefix, id)
             chidren_depth == len(prefix) + 1
             own == << <<new_prefix, atom.v>> >>
             here == IF atom.kind = "Leaf" THEN own
                     ELSE IF get_deterministic_strategy(chidren_depth)
                     THEN own \o flatten_loop(atom.s, new_prefix, DOMAIN atom.s)
                     ELSE flatten_loop(atom.s, new_prefix, DOMAIN atom.s) \o own
         IN here \o flatten_loop(siblings, prefix, todo \ {id})

\* LSeq::flatten_tree
flatten_tree(siblings, prefix) == flatten_loop(siblings, prefix, DOMAIN siblings)

\* a flatten that asks for the strategy of the depth of the Node itself
RECURSIVE flatten_loop_own_depth(_, _, _)
flatten_loop_own_depth(siblings, prefix, todo) ==
    IF todo = {} THEN <<>>
    ELSE LET id == MinKey(todo)
             atom == siblings[id][2]
             new_prefix == push(prefix, id)
             own == << <<new_prefix, atom.v>> >>
             below == flatten_loop_own_depth(atom.s, new_prefix, DOMAIN atom.s)
             here == IF atom.kind = "Leaf" THEN own
                     ELSE IF get_deterministic_strategy(len(prefix))
                     THEN own \o below
                     ELSE below \o own
         IN here \o flatten_loop_own_depth(siblings, prefix, todo \ {id})

flatten_own_depth(siblings) ==
    flatten_loop_own_depth(siblings, <<>>, DOMAIN siblings)

\* LSeq::flatten
flatten(siblings) == flatten_tree(siblings, <<>>)

\* the fold of LSeq::clock over the entries of the root level not yet visited
RECURSIVE clock_fold(_, _, _)
clock_fold(accum_clock, siblings, todo) ==
    IF todo = {} THEN accum_clock
    ELSE LET id == MinKey(todo)
         IN clock_fold(merge(accum_clock, siblings[id][1]), siblings,
                       todo \ {id})

\* LSeq::clock
clock(siblings) == clock_fold(VClockNew, siblings, DOMAIN siblings)

\* LSeq::read_ctx: add_clock and rm_clock are both clock()
read_ctx(siblings) == [add_clock |-> clock(siblings), rm_clock |-> clock(siblings)]

\* the number of entries of the root level of siblings whose stamp is dot:
\* .iter().filter(|(_, (d, _))| d == dot).count() in eq
num_found(siblings, dot) ==
    Cardinality({k \in DOMAIN siblings : siblings[k][1] = dot})

\* one loop of PartialEq::eq over the root entries of a not yet visited, which
\* looks each stamp up in b: "true" when the loop ends, "false" when a stamp
\* is not found, "assertion failed" when the sanity check panics
RECURSIVE eq_loop(_, _, _)
eq_loop(a, b, todo) ==
    IF todo = {} THEN "true"
    ELSE LET k == MinKey(todo)
         IN IF num_found(b, a[k][1]) = 0 THEN "false"
            ELSE IF num_found(b, a[k][1]) # 1 THEN "assertion failed"
            ELSE eq_loop(a, b, todo \ {k})

\* PartialEq for LSeq::eq (the operator ==)
eq(self, other) ==
    IF eq_loop(self, other, DOMAIN self) # "true"
    THEN eq_loop(self, other, DOMAIN self)
    ELSE eq_loop(other, self, DOMAIN other)

\* ReadCtx::derive_add_ctx(actor): the add clock advanced by the actor's next
\* counter
derive_add_ctx(ctx, actor, chk) == increment(ctx.add_clock, actor, chk).dots

\* ReadCtx::derive_rm_ctx
derive_rm_ctx(ctx) == ctx.rm_clock

\* Op::Insert and Op::Delete; NoOp is the value of lastOp before the first apply
InsertOp(op_clock, value, p, q) ==
    [kind |-> "Insert", clock |-> op_clock, value |-> value, p |-> p, q |-> q,
     id |-> <<>>]
DeleteOp(op_clock, id) ==
    [kind |-> "Delete", clock |-> op_clock, value |-> 0, p |-> None, q |-> None,
     id |-> id]
NoOp ==
    [kind |-> "None", clock |-> VClockNew, value |-> 0, p |-> None, q |-> None,
     id |-> <<>>]

\* Option::unwrap_or_else of p and of q in apply
unwrap_or(opt, default) == IF opt = None THEN default ELSE opt[1]

\* an apply whose Delete panics when the identifier addresses no entry
apply_delete_absent_panics(siblings, op, chk) ==
    IF op.kind = "Insert"
    THEN IF is_empty(op.clock) THEN {[s |-> siblings, r |-> "ok"]}
         ELSE alloc_id(siblings, unwrap_or(op.p, <<BEGIN_ID>>),
                       unwrap_or(op.q, <<END_ID>>), op.clock, op.value, chk)
    ELSE IF delete_id(siblings, op.id) = siblings
         THEN {[s |-> siblings, r |-> "no such entry"]}
         ELSE {[s |-> delete_id(siblings, op.id), r |-> "ok"]}

\* an apply that lets a Delete through only when its clock is not empty
apply_checking_delete_clock(siblings, op, chk) ==
    IF op.kind = "Insert"
    THEN IF is_empty(op.clock) THEN {[s |-> siblings, r |-> "ok"]}
         ELSE alloc_id(siblings, unwrap_or(op.p, <<BEGIN_ID>>),
                       unwrap_or(op.q, <<END_ID>>), op.clock, op.value, chk)
    ELSE IF is_empty(op.clock) THEN {[s |-> siblings, r |-> "ok"]}
         ELSE {[s |-> delete_id(siblings, op.id), r |-> "ok"]}

\* an apply that allocates for an Insert whatever its clock holds
apply_without_clock_guard(siblings, op, chk) ==
    IF op.kind = "Insert"
    THEN alloc_id(siblings, unwrap_or(op.p, <<BEGIN_ID>>),
                  unwrap_or(op.q, <<END_ID>>), op.clock, op.value, chk)
    ELSE {[s |-> delete_id(siblings, op.id), r |-> "ok"]}

\* CmRDT::apply: the set of the [s, r] it can end with, s the tree afterwards
\* and r "ok" or the panic
apply(siblings, op, chk) ==
    IF op.kind = "Insert"
    THEN IF is_empty(op.clock) THEN {[s |-> siblings, r |-> "ok"]}
         ELSE alloc_id(siblings, unwrap_or(op.p, <<BEGIN_ID>>),
                       unwrap_or(op.q, <<END_ID>>), op.clock, op.value, chk)
    ELSE {[s |-> delete_id(siblings, op.id), r |-> "ok"]}

(***************************************************************************)
(* Spec: one replica.                                                      *)
(***************************************************************************)
\* the identifiers listed by flatten
Ids(siblings) == {flatten(siblings)[i][1] : i \in 1 .. Len(flatten(siblings))}

\* the Option<Identifier> values handed to insert as p and q
OptIds(siblings) == {None} \cup {Some(id) : id \in Ids(siblings) \cup ExtraIds}

InitOthers ==
    /\ checked \in BOOLEAN

InitLSeq ==
    /\ tree = SiblingsNew
    /\ before = SiblingsNew
    /\ lastOp = NoOp
    /\ status = "running"
    /\ nops = 0

InitReplicas ==
    /\ rtree = [r \in 1 .. 2 |-> SiblingsNew]
    /\ rbefore = [r \in 1 .. 2 |-> SiblingsNew]
    /\ rlog = [r \in 1 .. 2 |-> <<>>]
    /\ rstatus = [r \in 1 .. 2 |-> "running"]
    /\ net = {}

\* cop before any call; a call sets the fields it uses: the clock w it was
\* made on, self as it was before, the arguments (other, actor, counter,
\* iter) and what it returned (ok of witness, next of increment, ord of
\* partial_cmp, conc of concurrent, out of glb and of intersection), r is
\* "ok" or the panic
NoCall ==
    [op |-> "none", w |-> "a", self |-> VClockNew, other |-> VClockNew,
     actor |-> 0, counter |-> 0, iter |-> <<>>, ok |-> TRUE, next |-> 0,
     ord |-> "Equal", conc |-> FALSE, out |-> VClockNew, r |-> "ok"]

InitClocks ==
    /\ ca = VClockNew
    /\ cb = VClockNew
    /\ cc = VClockNew
    /\ cop = NoCall

Init == InitOthers /\ InitLSeq /\ InitReplicas /\ InitClocks

\* seq.apply(op) as one of the first `bound` operations; a panic ends the run
\* of the replica and leaves the tree as the unwinding found it
Apply(op, bound) ==
    /\ status = "running"
    /\ nops < bound
    /\ \E res \in apply(tree, op, checked) :
          /\ tree' = res.s
          /\ status' = (IF res.r = "ok" THEN "running" ELSE res.r)
    /\ before' = tree
    /\ lastOp' = op
    /\ nops' = nops + 1
    /\ UNCHANGED <<checked, replicaVars, clockVars>>

\* the Option<Identifier> values around gap g of a flattened sequence f: gap 0
\* is before the first element, gap Len(f) after the last
GapP(f, g) == IF g = 0 THEN None ELSE Some(f[g][1])
GapQ(f, g) == IF g = Len(f) THEN None ELSE Some(f[g + 1][1])

\* the tests' insertion: read the sequence, take two neighbours (or the ends)
\* and apply insert(value, p, q, read_ctx().derive_add_ctx(actor)); the k-th
\* operation inserts the value k
InsertBetween ==
    \E g \in 0 .. Len(flatten(tree)) :
        Apply(InsertOp(derive_add_ctx(read_ctx(tree), 1, checked), nops + 1,
                       GapP(flatten(tree), g), GapQ(flatten(tree), g)), MaxOps)

\* the tests' deletion: apply delete(id, ctx) for an identifier read from the
\* sequence, with the read context or with an empty clock
DeleteListed ==
    \E id \in Ids(tree) :
    \E c \in {derive_rm_ctx(read_ctx(tree)), VClockNew} :
        Apply(DeleteOp(c, id), MaxOps)

Next == InsertBetween \/ DeleteListed

Spec == Init /\ [][Next]_vars

(***************************************************************************)
(* SpecAny: one replica, operations with any arguments.                    *)
(***************************************************************************)
\* apply(Insert) with any p and q, listed or not, and any clock
InsertAny ==
    \E p \in OptIds(tree), q \in OptIds(tree) :
    \E c \in {derive_add_ctx(read_ctx(tree), 1, checked), VClockNew} :
        Apply(InsertOp(c, nops + 1, p, q), MaxAnyOps)

\* apply(Delete) with any identifier, listed or not, and any clock
DeleteAny ==
    \E id \in Ids(tree) \cup ExtraIds :
    \E c \in {derive_rm_ctx(read_ctx(tree)), VClockNew} :
        Apply(DeleteOp(c, id), MaxAnyOps)

NextAny == InsertAny \/ DeleteAny

SpecAny == Init /\ [][NextAny]_vars
(***************************************************************************)
(* Properties of apply on one replica.                                     *)
(***************************************************************************)
\* the sequence f without its i-th pair
RemoveAt(f, i) == SubSeq(f, 1, i - 1) \o SubSeq(f, i + 1, Len(f))

\* the identifiers of a flattened sequence
IdsOf(f) == {f[i][1] : i \in 1 .. Len(f)}

\* p and q are neighbours of the flattened sequence f (None standing for the
\* position before the first and after the last element)
Neighbours(f, p, q) == \E g \in 0 .. Len(f) : GapP(f, g) = p /\ GapQ(f, g) = q

\* the last apply was an Insert with a clock that is not empty
LastInsert == lastOp.kind = "Insert" /\ ~is_empty(lastOp.clock)

\* the last apply returned instead of panicking
Completed == status = "running"

\* only Inserts were applied before the last operation, and all completed: the
\* sequence then held one pair per operation
OnlyInsertsBefore == Len(flatten(before)) = nops - 1

\* the kind of the entry that the identifier addresses, "None" when there is none
RECURSIVE KindAt(_, _, _)
KindAt(siblings, id, d) ==
    IF d >= len(id) \/ at(id, d) \notin DOMAIN siblings THEN "None"
    ELSE IF d = len(id) - 1 THEN siblings[at(id, d)][2].kind
    ELSE KindAt(siblings[at(id, d)][2].s, id, d + 1)

\* C1: when an Insert between two neighbours p and q of the sequence
\* completes, the new pair, holding the inserted value, is listed immediately
\* after p and immediately before q.
C1_InsertedBetweenNeighbours ==
    (LastInsert /\ Completed /\ Neighbours(flatten(before), lastOp.p, lastOp.q))
    => \E i \in 1 .. Len(flatten(tree)) :
          /\ flatten(tree)[i][2] = lastOp.value
          /\ flatten(tree)[i][1] \notin IdsOf(flatten(before))
          /\ GapP(flatten(tree), i - 1) = lastOp.p
          /\ GapQ(flatten(tree), i) = lastOp.q

\* C2: starting from the empty sequence, an Insert between two neighbours
\* that follows only such Inserts does not end in one of the failures p greater
\* than q, number already taken, missing ancestor or exhausted identifier
\* space, and the identifiers listed by flatten are pairwise distinct.
C2_InsertsBetweenNeighboursNeverFail ==
    (LastInsert /\ OnlyInsertsBefore
       /\ Neighbours(flatten(before), lastOp.p, lastOp.q))
    => /\ status \notin {"p cannot be greater than q", "number was already taken",
                         "missing ancestor", "infinite loop"}
       /\ Cardinality(IdsOf(flatten(tree))) = Len(flatten(tree))

\* C4: an Insert that completes adds exactly one pair, holding the inserted
\* value under an identifier not listed before, and every pair listed before
\* keeps its identifier, its value and its place among the others.
C4_InsertAddsOnePair ==
    (LastInsert /\ Completed)
    => \E i \in 1 .. Len(flatten(tree)) :
          /\ flatten(tree)[i][2] = lastOp.value
          /\ flatten(tree)[i][1] \notin IdsOf(flatten(before))
          /\ RemoveAt(flatten(tree), i) = flatten(before)

\* C4 witness: an Insert completed on a sequence of at least two pairs and
\* promoted a Leaf on its way
C4_Witness ==
    /\ LastInsert /\ Completed
    /\ Len(flatten(before)) >= 2
    /\ \E id \in IdsOf(flatten(before)) :
          KindAt(before, id, 0) = "Leaf" /\ KindAt(tree, id, 0) = "Node"

\* C5: a Delete of a listed Leaf removes exactly its pair, whatever the clock
\* of the operation; every other pair keeps identifier, value and order.
C5_DeleteLeafRemovesItsPair ==
    (lastOp.kind = "Delete" /\ KindAt(before, lastOp.id, 0) = "Leaf")
    => /\ Completed
       /\ \E i \in 1 .. Len(flatten(before)) :
             /\ flatten(before)[i][1] = lastOp.id
             /\ flatten(tree) = RemoveAt(flatten(before), i)

\* C5 witness: a Leaf below the root was deleted by an operation whose clock
\* is empty, and pairs are left
C5_Witness ==
    /\ lastOp.kind = "Delete" /\ KindAt(before, lastOp.id, 0) = "Leaf"
    /\ is_empty(lastOp.clock)
    /\ len(lastOp.id) >= 2
    /\ Len(flatten(tree)) >= 2
    /\ lastOp.id \notin IdsOf(flatten(tree))

\* C6: an Insert whose p is listed at or after its q fails and leaves the
\* sequence as it was.
C6_InsertOutOfOrderFails ==
    (LastInsert /\ \E i, j \in 1 .. Len(flatten(before)) :
                      /\ lastOp.p = Some(flatten(before)[i][1])
                      /\ lastOp.q = Some(flatten(before)[j][1])
                      /\ i >= j)
    => ~Completed /\ flatten(tree) = flatten(before)

\* C7: an Insert that fails leaves the tree exactly as it was.
C7_FailedInsertLeavesTree ==
    (lastOp.kind = "Insert" /\ ~Completed) => tree = before

\* the result of apply(Delete) on a tree: apply has one outcome for a Delete
DeleteResult(siblings, id) ==
    CHOOSE res \in apply(siblings, DeleteOp(VClockNew, id), checked) : TRUE

\* C9: Delete is idempotent, Deletes commute, and a Delete of an identifier
\* that addresses no entry changes nothing; no Delete fails.
C9_DeleteIdempotentCommutes ==
    \A id1, id2 \in Ids(tree) \cup ExtraIds :
        LET d1 == DeleteResult(tree, id1)
            d2 == DeleteResult(tree, id2)
        IN /\ d1.r = "ok"
           /\ DeleteResult(d1.s, id1) = d1
           /\ DeleteResult(d1.s, id2) = DeleteResult(d2.s, id1)
           /\ (id1 \notin Ids(tree) => d1.s = tree)

\* C9 witness: a Delete of an identifier that was not listed has been applied
\* to a tree holding a Node with a child
C9_Witness ==
    /\ lastOp.kind = "Delete" /\ lastOp.id \notin IdsOf(flatten(before))
    /\ Completed /\ tree = before
    /\ \E id1, id2 \in Ids(tree) :
          len(id1) < len(id2) /\ SubSeq(id2, 1, len(id1)) = id1

\* the causal stamps of the entries of a tree, at every depth
RECURSIVE Stamps(_)
Stamps(siblings) ==
    UNION {{siblings[k][1]} \cup Stamps(siblings[k][2].s) : k \in DOMAIN siblings}

\* the pointwise merge of a set of clocks
PointwiseMerge(S) ==
    [x \in UNION {DOMAIN c : c \in S} |->
        CHOOSE n \in {get(c, x) : c \in S} : \A c \in S : get(c, x) <= n]

\* C20: the add_clock and rm_clock of read_ctx() are the pointwise merge of
\* the stamps of every entry of the tree, at every depth, and so compare
\* Greater or Equal to each of them.
C20_ReadCtxMergesAllStamps ==
    Completed =>
        /\ read_ctx(tree).add_clock = PointwiseMerge(Stamps(tree))
        /\ read_ctx(tree).rm_clock = PointwiseMerge(Stamps(tree))
        /\ \A c \in Stamps(tree) : ge(read_ctx(tree).add_clock, c)

\* the last apply was an Insert with an empty clock
LastEmptyInsert == lastOp.kind = "Insert" /\ is_empty(lastOp.clock)

\* C22: apply(Insert) with an empty clock leaves the LSeq as it was and does
\* not fail, whatever the value, p and q.
C22_EmptyClockInsertIsNoOp ==
    LastEmptyInsert => tree = before /\ Completed

\* C22 witness: an Insert with an empty clock has been applied to a tree
\* that holds entries, with p and q for which the allocation panics
C22_Witness ==
    /\ LastEmptyInsert
    /\ tree = before /\ tree # SiblingsNew /\ Completed
    /\ find_new_id_depth(unwrap_or(lastOp.p, <<BEGIN_ID>>),
                         unwrap_or(lastOp.q, <<END_ID>>), checked).r # "ok"

\* the place of the identifier id in the flattened sequence f
PosOf(f, id) == CHOOSE i \in 1 .. Len(f) : f[i][1] = id

\* identifier a is a proper prefix of identifier b: b is stored below a
IsPrefix(a, b) == len(a) < len(b) /\ SubSeq(b, 1, len(a)) = a

\* identifiers a and b are stored in the same level
SameLevel(a, b) ==
    len(a) = len(b) /\ SubSeq(a, 1, len(a) - 1) = SubSeq(b, 1, len(b) - 1)

\* the entries of one level are listed in ascending label order
LevelsAscend ==
    \A a, b \in Ids(tree) :
        (SameLevel(a, b) /\ a[len(a)] < b[len(b)])
            => PosOf(flatten(tree), a) < PosOf(flatten(tree), b)

\* the Nodes whose depth has the given parity are listed before all entries
\* below them, the other Nodes after all entries below them
NodesFirstAtParity(parity) ==
    \A id, c \in Ids(tree) :
        (KindAt(tree, id, 0) = "Node" /\ IsPrefix(id, c)) =>
            IF (len(id) - 1) % 2 = parity
            THEN PosOf(flatten(tree), id) < PosOf(flatten(tree), c)
            ELSE PosOf(flatten(tree), id) > PosOf(flatten(tree), c)

\* C25 as claimed: a Node stored at an even depth is listed before the
\* entries of its child level, a Node stored at an odd depth after them, and
\* the entries of one level are listed in ascending label order.
C25_NodeFirstAtEvenDepth == NodesFirstAtParity(0) /\ LevelsAscend

\* C25 amended: a Node stored at an odd depth (its child level has an even
\* depth) is listed before the entries of its child level, a Node stored at
\* an even depth after them, and the entries of one level are listed in
\* ascending label order.
C25_NodeFirstAtOddDepth == NodesFirstAtParity(1) /\ LevelsAscend

\* C25 witness: the tree holds a Node at depth 0 and a Node at depth 1, each
\* with an entry below it, and a level with two entries
C25_Witness ==
    /\ \E id, c \in Ids(tree) :
          len(id) = 1 /\ KindAt(tree, id, 0) = "Node" /\ IsPrefix(id, c)
    /\ \E id, c \in Ids(tree) :
          len(id) = 2 /\ KindAt(tree, id, 0) = "Node" /\ IsPrefix(id, c)
    /\ \E a, b \in Ids(tree) : a # b /\ SameLevel(a, b)

\* p and q as apply hands them to alloc_id for the last operation
LastP == unwrap_or(lastOp.p, <<BEGIN_ID>>)
LastQ == unwrap_or(lastOp.q, <<END_ID>>)

\* the mixed-radix value of the digits of id at depths 0 .. d, the radix of
\* depth k being arity_at(k) and a missing digit being arity_at(k) - 1
RECURSIVE MixedRadix(_, _)
MixedRadix(id, d) ==
    IF d < 0 THEN 0
    ELSE MixedRadix(id, d - 1) * arity_at(d)
         + (IF d < len(id) THEN at(id, d) ELSE arity_at(d) - 1)

\* the smallest depth from d on, not beyond both identifiers, at which the
\* mixed-radix gap between p and q is positive, and that gap; depth -1 when
\* there is none
RECURSIVE MixedRadixGap(_, _, _)
MixedRadixGap(p, q, d) ==
    IF d > len(p) /\ d > len(q) THEN [depth |-> -1, interval |-> 0]
    ELSE IF MixedRadix(q, d) - MixedRadix(p, d) - 1 > 0
    THEN [depth |-> d, interval |-> MixedRadix(q, d) - MixedRadix(p, d) - 1]
    ELSE MixedRadixGap(p, q, d + 1)

\* C26: what find_new_id_depth(p, q) returns is the smallest depth with a
\* positive mixed-radix gap between p and q, and that gap.
C26_FindDepthIsMixedRadixGap ==
    (LastInsert /\ find_new_id_depth(LastP, LastQ, checked).r = "ok") =>
        /\ find_new_id_depth(LastP, LastQ, checked).depth
               = MixedRadixGap(LastP, LastQ, 0).depth
        /\ find_new_id_depth(LastP, LastQ, checked).interval
               = MixedRadixGap(LastP, LastQ, 0).interval

\* the last apply was an Insert that allocated an identifier
Allocated == LastInsert /\ Completed

\* the identifier the last Insert allocated
NewId == CHOOSE id \in Ids(tree) : id \notin Ids(before)

\* C27: the label of a new entry at allocation depth d lies, for even d, in
\* (reference, reference + step] with the label of p at depth d (or 0) as
\* reference and, for odd d, in [reference - step, reference) with the label
\* of q at depth d (or arity_at(d) - 1) as reference; step = min(gap,
\* boundary).
C27_LabelWithinStepOfReference ==
    Allocated =>
        LET d == len(NewId) - 1
            label == at(NewId, d)
            gap == find_new_id_depth(LastP, LastQ, checked).interval
            step == IF gap < boundary THEN gap ELSE boundary
            from_p == IF d < len(LastP) THEN at(LastP, d) ELSE 0
            from_q == IF d < len(LastQ) THEN at(LastQ, d) ELSE arity_at(d) - 1
        IN /\ d = find_new_id_depth(LastP, LastQ, checked).depth
           /\ d % 2 = 0 => from_p < label /\ label <= from_p + step
           /\ d % 2 = 1 => from_q - step <= label /\ label < from_q

\* C27 witness: an Insert allocated a label at an odd depth below a q that
\* is shorter than that depth, after one allocated at an even depth from a p
\* that holds a label there
C27_Witness ==
    /\ Allocated
    /\ (len(NewId) - 1) % 2 = 1
    /\ len(LastQ) < len(NewId)
    /\ \E id \in Ids(before) : len(id) = 1 /\ at(id, 0) > boundary

\* C28: every label stored at depth d is below arity_at(d).
C28_LabelsBelowArity ==
    \A id \in Ids(tree) : at(id, len(id) - 1) < arity_at(len(id) - 1)

\* C29: no stored entry has the identifier BEGIN = [0] or END = [u64::MAX].
C29_SentinelsNeverStored ==
    /\ <<BEGIN_ID>> \notin Ids(tree)
    /\ <<END_ID>> \notin Ids(tree)

\* C29 witness: an Insert with p and q omitted allocated the label next to
\* BEGIN, and an Insert after it with q omitted has allocated as well
C29_Witness ==
    /\ Allocated
    /\ lastOp.q = None /\ lastOp.p # None
    /\ len(NewId) = 1
    /\ <<BEGIN_ID + 1>> \in Ids(tree)

\* the entry <<stamp, atom>> stored under the identifier id, looked up from
\* depth d on in siblings
RECURSIVE EntryAt(_, _, _)
EntryAt(siblings, id, d) ==
    IF d = len(id) - 1 THEN siblings[at(id, d)]
    ELSE EntryAt(siblings[at(id, d)][2].s, id, d + 1)

\* the entry id was a Leaf before the last apply and is a Node after it
Promoted(id) ==
    /\ id \in Ids(before) \cap Ids(tree)
    /\ EntryAt(before, id, 0)[2].kind = "Leaf"
    /\ EntryAt(tree, id, 0)[2].kind = "Node"

\* C30: an apply leaves the value and the stamp of every entry that stays
\* stored; a Node stays a Node; a Leaf that became a Node did so in an
\* Insert, with an empty child level that holds at most the new entry.
C30_EntriesKeepValueAndStamp ==
    \A id \in Ids(before) \cap Ids(tree) :
        LET old == EntryAt(before, id, 0)
            new == EntryAt(tree, id, 0)
        IN /\ new[1] = old[1]
           /\ new[2].v = old[2].v
           /\ old[2].kind = "Node" => new[2].kind = "Node"
           /\ Promoted(id) =>
                  /\ LastInsert
                  /\ \A k \in DOMAIN new[2].s :
                         /\ Completed
                         /\ push(id, k) = NewId
                         /\ new[2].s[k] = <<lastOp.clock, Leaf(lastOp.value)>>

\* C30 witness: the last Insert promoted a Leaf that holds a stamp and a
\* value of its own, and an older Node is still a Node
C30_Witness ==
    /\ Allocated
    /\ \E id \in Ids(tree) :
          /\ Promoted(id)
          /\ EntryAt(tree, id, 0)[1] # lastOp.clock
          /\ EntryAt(tree, id, 0)[2].v # lastOp.value
    /\ \E id \in Ids(before) \cap Ids(tree) :
          EntryAt(before, id, 0)[2].kind = "Node"

\* the pairs of a flattened sequence whose identifier is neither id nor below it
WithoutSubtree(f, id) ==
    LET Outside(e) == e[1] # id /\ ~IsPrefix(id, e[1])
    IN SelectSeq(f, Outside)

\* C31: a Delete of a Node removes from the sequence the Node's pair and the
\* pair of every entry whose identifier has the Node's as a proper prefix;
\* every other pair keeps identifier, value and order.
C31_DeleteNodeRemovesSubtree ==
    (lastOp.kind = "Delete" /\ KindAt(before, lastOp.id, 0) = "Node")
    => /\ Completed
       /\ flatten(tree) = WithoutSubtree(flatten(before), lastOp.id)

\* C31 witness: a Node with a listed child was deleted, the child is no
\* longer listed and pairs outside the subtree are left
C31_Witness ==
    /\ lastOp.kind = "Delete" /\ KindAt(before, lastOp.id, 0) = "Node"
    /\ \E id \in Ids(before) : IsPrefix(lastOp.id, id) /\ id \notin Ids(tree)
    /\ Len(flatten(tree)) >= 1
    /\ Len(flatten(tree)) <= Len(flatten(before)) - 2

\* the first depth that exceeds both len(p) and len(q)
FirstDepthPastBoth(p, q) == (IF len(p) > len(q) THEN len(p) ELSE len(q)) + 1

\* C32: find_new_id_depth ends for the p and q of every Insert: it returns or
\* fails at a depth no later than the first depth that exceeds both len(p)
\* and len(q), and at that depth it can only fail; the Insert then fails
\* with it.
C32_FindDepthStopsPastBothLengths ==
    LastInsert
    => LET found == find_new_id_depth(LastP, LastQ, checked)
           first == FirstDepthPastBoth(LastP, LastQ)
       IN /\ found.depth <= first
          /\ found.depth = first => found.r = "infinite loop"
          /\ found.r # "ok" => status = found.r

\* C32 witness: an Insert whose p and q left no room at any depth has failed
\* at the first depth past both of them
C32_Witness ==
    /\ LastInsert /\ status = "infinite loop"
    /\ len(LastP) >= 2
    /\ find_new_id_depth(LastP, LastQ, checked).depth
          = FirstDepthPastBoth(LastP, LastQ)

\* C34: on one replica whose Inserts take their clock from the read context
\* advanced by the actor, the entries stored at the same time, at any depth,
\* carry pairwise different causal stamps: as many stamps as entries.
C34_StoredStampsDiffer ==
    Cardinality(Stamps(tree)) = Len(flatten(tree))

\* C21: two LSeq instances (the replica and its clone taken before the last
\* apply) compare equal exactly when the stamps of all their entries, at
\* every depth, form the same set.
C21_EqIsSameStampSet ==
    eq(tree, before) = "true" <=> Stamps(tree) = Stamps(before)

(***************************************************************************)
(* SpecReplicas: two replicas, replica r acting for the actor r.  A        *)
(* replica builds an operation from its own read, applies it and           *)
(* broadcasts it; the transport hands every broadcast operation to the     *)
(* other replica, possibly twice.                                          *)
(***************************************************************************)
Replicas == {1, 2}

\* the number of times op occurs in a log
Count(log, op) == Cardinality({i \in 1 .. Len(log) : log[i] = op})

\* the operations replica r can build from its read: an insert between two
\* neighbours of its sequence, or a delete of a listed identifier
LocalOps(r) ==
    {InsertOp(derive_add_ctx(read_ctx(rtree[r]), r, checked), Cardinality(net) + 1,
              GapP(flatten(rtree[r]), g), GapQ(flatten(rtree[r]), g)) :
        g \in 0 .. Len(flatten(rtree[r]))}
    \cup {DeleteOp(derive_rm_ctx(read_ctx(rtree[r])), id) : id \in Ids(rtree[r])}

\* replica r applies op; the operation is broadcast when `send` and the apply
\* returned
RApply(r, op, send) ==
    /\ rstatus[r] = "running"
    /\ \E res \in apply(rtree[r], op, checked) :
          /\ rtree' = [rtree EXCEPT ![r] = res.s]
          /\ rstatus' = [rstatus EXCEPT ![r] = IF res.r = "ok" THEN "running"
                                               ELSE res.r]
          /\ net' = IF send /\ res.r = "ok" THEN net \cup {op} ELSE net
    /\ rbefore' = [rbefore EXCEPT ![r] = rtree[r]]
    /\ rlog' = [rlog EXCEPT ![r] = Append(rlog[r], op)]
    /\ UNCHANGED <<checked, lseqVars, clockVars>>

\* a replica proposes an operation: builds it, applies it, broadcasts it
Propose ==
    \E r \in Replicas :
        /\ Cardinality(net) < MaxNetOps
        /\ \E op \in LocalOps(r) : RApply(r, op, TRUE)

\* a replica receives an operation of the other replica for the first time
Deliver ==
    \E r \in Replicas : \E op \in net :
        /\ Count(rlog[r], op) = 0
        /\ RApply(r, op, FALSE)

\* a replica receives once more the operation it applied last
Redeliver ==
    \E r \in Replicas :
        /\ rlog[r] # <<>>
        /\ Count(rlog[r], rlog[r][Len(rlog[r])]) = 1
        /\ RApply(r, rlog[r][Len(rlog[r])], FALSE)

NextReplicas == Propose \/ Deliver \/ Redeliver

SpecReplicas == Init /\ [][NextReplicas]_vars

(***************************************************************************)
(* SpecOnce: two replicas, every operation applied once by its proposer    *)
(* and delivered at most once to the other replica, in any order.          *)
(***************************************************************************)
\* a replica proposes an operation: builds it, applies it, broadcasts it
ProposeOnce ==
    \E r \in Replicas :
        /\ Cardinality(net) < MaxOnceOps
        /\ \E op \in LocalOps(r) : RApply(r, op, TRUE)

NextOnce == ProposeOnce \/ Deliver

SpecOnce == Init /\ [][NextOnce]_vars

\* the root-level entries of a tree carry pairwise different causal stamps
RootStampsDiffer(siblings) ==
    \A k1, k2 \in DOMAIN siblings : k1 # k2 => siblings[k1][1] # siblings[k2][1]

\* C33: when every replica derives the clock of its Inserts from its own read
\* context and every operation reaches a replica at most once, in any order,
\* no replica holds two root-level entries with equal causal stamps, and ==
\* between replicas never fails its sanity assertion.
C33_EqNeverTripsAssertion ==
    /\ \A r \in Replicas : RootStampsDiffer(rtree[r])
    /\ \A r1, r2 \in Replicas : eq(rtree[r1], rtree[r2]) # "assertion failed"

\* replica r has applied every broadcast operation exactly once, and nothing
\* else, and is running
AppliedAllOnce(r) ==
    /\ rstatus[r] = "running"
    /\ Len(rlog[r]) = Cardinality(net)
    /\ \A op \in net : Count(rlog[r], op) = 1

\* C3: two replicas that applied the same operations exactly once, in
\* different orders, list equal sequences.
C3_ReplicasConverge ==
    (AppliedAllOnce(1) /\ AppliedAllOnce(2) /\ rlog[1] # rlog[2])
    => flatten(rtree[1]) = flatten(rtree[2])

\* C8: applying an Insert a second time leaves the sequence as the first
\* application left it.
C8_InsertIdempotent ==
    \A r \in Replicas :
        (/\ Len(rlog[r]) >= 2
         /\ rlog[r][Len(rlog[r])] = rlog[r][Len(rlog[r]) - 1]
         /\ rlog[r][Len(rlog[r])].kind = "Insert"
         /\ ~is_empty(rlog[r][Len(rlog[r])].clock))
        => flatten(rtree[r]) = flatten(rbefore[r])

(***************************************************************************)
(* SpecClock: three clocks, each reached from the empty clock by witness,  *)
(* increment and merge.                                                    *)
(***************************************************************************)
\* the clock named w, and the step that stores c into it
ClockNames == {"a", "b", "c"}
Pick(w) == IF w = "a" THEN ca ELSE IF w = "b" THEN cb ELSE cc
Store(w, c) ==
    /\ ca' = IF w = "a" THEN c ELSE ca
    /\ cb' = IF w = "b" THEN c ELSE cb
    /\ cc' = IF w = "c" THEN c ELSE cc
    /\ UNCHANGED <<cop, checked, lseqVars, replicaVars>>

\* clock.witness(actor, counter), the Result dropped
Witness ==
    \E w \in ClockNames, actor \in Actors, counter \in 0 .. MaxCounter :
        Store(w, witness(Pick(w), actor, counter).dots)

\* clock.increment(actor), while the counter is below the cap of the model
Increment ==
    \E w \in ClockNames, actor \in Actors :
        /\ get(Pick(w), actor) < MaxCounter
        /\ Store(w, increment(Pick(w), actor, checked).dots)

\* clock.merge(&other)
Merge ==
    \E w \in ClockNames, other \in ClockNames :
        Store(w, merge(Pick(w), Pick(other)))

NextClock == Witness \/ Increment \/ Merge

SpecClock == Init /\ [][NextClock]_vars

\* C10: merge is commutative, associative and idempotent.
C10_MergeCommAssocIdem ==
    /\ merge(ca, cb) = merge(cb, ca)
    /\ merge(merge(ca, cb), cc) = merge(ca, merge(cb, cc))
    /\ merge(ca, ca) = ca

\* C10 witness: ca and cb each hold a counter the other lacks, and cc is
\* their merge
C10_Witness ==
    /\ get(ca, 1) > get(cb, 1) /\ get(cb, 2) > get(ca, 2)
    /\ get(cb, 1) > 0
    /\ cc = merge(ca, cb)

(***************************************************************************)
(* SpecClockOps: two clocks under every operation of VClock.               *)
(***************************************************************************)
\* the two clocks, and the counters handed to witness
OpNames == {"a", "b"}
Counters == (0 .. MaxCounter) \cup {COUNTER_MAX}

\* a call on clock w that leaves it as c and is recorded as call
Call(w, c, call) ==
    /\ cop.r = "ok"
    /\ ca' = IF w = "a" THEN c ELSE ca
    /\ cb' = IF w = "b" THEN c ELSE cb
    /\ cop' = call
    /\ UNCHANGED <<cc, checked, lseqVars, replicaVars>>

\* clock.witness(actor, counter)
WitnessOp ==
    \E w \in OpNames, actor \in Actors, counter \in Counters :
        LET res == witness(Pick(w), actor, counter)
        IN Call(w, res.dots,
                [NoCall EXCEPT !.op = "witness", !.w = w, !.self = Pick(w),
                               !.actor = actor, !.counter = counter,
                               !.ok = res.ok])

\* clock.increment(actor), while the counter is below the cap of the model or
\* is the largest Counter
IncrementOp ==
    \E w \in OpNames, actor \in Actors :
        /\ get(Pick(w), actor) < MaxCounter \/ get(Pick(w), actor) = COUNTER_MAX
        /\ LET res == increment(Pick(w), actor, checked)
           IN Call(w, res.dots,
                   [NoCall EXCEPT !.op = "increment", !.w = w,
                                  !.self = Pick(w), !.actor = actor,
                                  !.next = res.next, !.r = res.r])

\* clock.merge(&other)
MergeOp ==
    \E w \in OpNames, o \in OpNames :
        Call(w, merge(Pick(w), Pick(o)),
             [NoCall EXCEPT !.op = "merge", !.w = w, !.self = Pick(w),
                            !.other = Pick(o)])

\* clock.truncate(&other)
TruncateOp ==
    \E w \in OpNames, o \in OpNames :
        Call(w, truncate(Pick(w), Pick(o)),
             [NoCall EXCEPT !.op = "truncate", !.w = w, !.self = Pick(w),
                            !.other = Pick(o)])

\* clock.subtract(&other)
SubtractOp ==
    \E w \in OpNames, o \in OpNames :
        Call(w, subtract(Pick(w), Pick(o)),
             [NoCall EXCEPT !.op = "subtract", !.w = w, !.self = Pick(w),
                            !.other = Pick(o)])

\* clock.partial_cmp(&other) and clock.concurrent(&other)
CompareOp ==
    \E w \in OpNames, o \in OpNames :
        Call(w, Pick(w),
             [NoCall EXCEPT !.op = "partial_cmp", !.w = w, !.self = Pick(w),
                            !.other = Pick(o),
                            !.ord = partial_cmp(Pick(w), Pick(o)),
                            !.conc = concurrent(Pick(w), Pick(o))])

\* VClock::glb(&clock, &other)
GlbOp ==
    \E w \in OpNames, o \in OpNames :
        Call(w, Pick(w),
             [NoCall EXCEPT !.op = "glb", !.w = w, !.self = Pick(w),
                            !.other = Pick(o),
                            !.out = glb(Pick(w), Pick(o))])

\* clock.intersection(&other)
IntersectionOp ==
    \E w \in OpNames, o \in OpNames :
        Call(w, Pick(w),
             [NoCall EXCEPT !.op = "intersection", !.w = w, !.self = Pick(w),
                            !.other = Pick(o),
                            !.out = intersection(Pick(w), Pick(o))])

NextClockOps ==
    \/ WitnessOp \/ IncrementOp \/ MergeOp \/ TruncateOp \/ SubtractOp
    \/ CompareOp \/ GlbOp \/ IntersectionOp

SpecClockOps == Init /\ [][NextClockOps]_vars

\* the clock the last call was made on, as it is now
Now == Pick(cop.w)

\* the larger of two counters
Max(a, b) == IF a > b THEN a ELSE b

\* every actor other than x is stored in c and in d alike
SameButFor(c, d, x) ==
    \A y \in Actors \ {x} :
        /\ y \in DOMAIN c <=> y \in DOMAIN d
        /\ get(c, y) = get(d, y)

\* C11: after a.merge(b) every counter of a is the larger of the old counter
\* of a and the counter of b, and a compares Greater or Equal to the old a
\* and to b.
C11_MergeIsPointwiseMax ==
    cop.op = "merge" =>
        /\ \A x \in Actors :
               get(Now, x) = Max(get(cop.self, x), get(cop.other, x))
        /\ ge(Now, cop.self)
        /\ ge(Now, cop.other)

\* C11 witness: a merge in which each clock held a counter above the other's
C11_Witness ==
    /\ cop.op = "merge"
    /\ get(cop.self, 1) > get(cop.other, 1) /\ get(cop.other, 1) > 0
    /\ get(cop.other, 2) > get(cop.self, 2)
    /\ Now # cop.self /\ Now # cop.other

\* C12: witness(actor, counter) returns Ok and stores the counter exactly
\* when the actor is absent or the counter is above the stored one;
\* otherwise it returns ConflictingDot and leaves the clock as it was.
C12_WitnessAcceptsOnlyNewerDots ==
    cop.op = "witness" =>
        LET accepted == \/ cop.actor \notin DOMAIN cop.self
                        \/ cop.counter > cop.self[cop.actor]
        IN /\ cop.ok <=> accepted
           /\ accepted => /\ cop.actor \in DOMAIN Now
                           /\ Now[cop.actor] = cop.counter
                           /\ SameButFor(Now, cop.self, cop.actor)
           /\ ~accepted => Now = cop.self

\* C12 witness: witness(x, 1) on a clock that holds x at 2 failed and x is
\* still at 2
C12_Witness ==
    /\ cop.op = "witness" /\ ~cop.ok
    /\ cop.counter = 1
    /\ cop.actor \in DOMAIN cop.self /\ cop.self[cop.actor] = 2
    /\ get(Now, cop.actor) = 2

\* C13: witness, increment and merge never lower a counter; increment
\* returns the old counter plus one, stores it and leaves the other actors.
C13_CountersNeverDecrease ==
    /\ cop.op \in {"witness", "increment", "merge"} =>
           \A x \in Actors : get(Now, x) >= get(cop.self, x)
    /\ cop.op = "increment" =>
           /\ cop.r = "ok"
           /\ cop.next - 1 = get(cop.self, cop.actor)
           /\ get(Now, cop.actor) = cop.next
           /\ SameButFor(Now, cop.self, cop.actor)

\* whether a holds, for every actor b stores, a counter (0 when absent) that
\* is at least the counter of b
Dominates(a, b) == \A x \in DOMAIN b : get(a, x) >= b[x]

\* C14: partial_cmp is Equal for identical dots, Greater when the clocks
\* differ and self holds at least the counter of every actor of other (0
\* when absent), Less when they differ, are not Greater and other holds at
\* least the counters of self, None otherwise.
C14_PartialCmpByDominance ==
    cop.op = "partial_cmp" =>
        LET a == cop.self
            b == cop.other
            greater == a # b /\ Dominates(a, b)
            less == a # b /\ ~greater /\ Dominates(b, a)
        IN /\ cop.ord = "Equal" <=> a = b
           /\ cop.ord = "Greater" <=> greater
           /\ cop.ord = "Less" <=> less
           /\ cop.ord = "None" <=> (a # b /\ ~greater /\ ~less)

\* C15: a < b exactly when b > a, a > b and b > a never hold together, and
\* concurrent is symmetric and means unequal with neither clock greater.
C15_OrderIsAntisymmetric ==
    cop.op = "partial_cmp" =>
        LET a == cop.self
            b == cop.other
        IN /\ cop.ord = "Less" <=> gt(b, a)
           /\ ~(cop.ord = "Greater" /\ gt(b, a))
           /\ cop.conc <=> concurrent(b, a)
           /\ cop.conc <=> (a # b /\ cop.ord # "Greater" /\ ~gt(b, a))

\* C15 witness: two clocks compared that each hold a counter above the
\* other's, found concurrent
C15_Witness ==
    /\ cop.op = "partial_cmp" /\ cop.conc
    /\ get(cop.self, 1) > get(cop.other, 1) /\ get(cop.other, 1) > 0
    /\ get(cop.other, 2) > get(cop.self, 2) /\ get(cop.self, 2) > 0

\* C16: glb(a, b) holds for every actor the smaller of the two counters (0
\* when absent), stores no 0 counter, is the same as glb(b, a) and compares
\* Less or Equal to a and to b.
C16_GlbIsPointwiseMin ==
    cop.op = "glb" =>
        LET a == cop.self
            b == cop.other
        IN /\ \A x \in Actors :
                  get(cop.out, x) = IF get(a, x) < get(b, x) THEN get(a, x)
                                    ELSE get(b, x)
           /\ \A x \in DOMAIN cop.out : cop.out[x] > 0
           /\ cop.out = glb(b, a)
           /\ le(cop.out, a)
           /\ le(cop.out, b)

\* C16 witness: a glb of two clocks that share an actor with different
\* counters while only one of them stores the other actor
C16_Witness ==
    /\ cop.op = "glb"
    /\ get(cop.self, 1) > get(cop.other, 1) /\ get(cop.other, 1) > 0
    /\ 2 \in DOMAIN cop.self /\ 2 \notin DOMAIN cop.other
    /\ DOMAIN cop.out = {1}

\* C17: a.truncate(b) leaves a equal to glb(old a, b), and a.truncate(a)
\* leaves a as it was.
C17_TruncateIsGlb ==
    cop.op = "truncate" =>
        /\ Now = glb(cop.self, cop.other)
        /\ cop.other = cop.self => Now = cop.self

\* C18: a.subtract(b) removes from a the actors b stores with a counter at
\* least that of a and leaves the other actors; a.subtract(a) is empty and
\* a.subtract(empty clock) is a.
C18_SubtractRemovesDominated ==
    cop.op = "subtract" =>
        /\ \A x \in Actors :
               IF x \in DOMAIN cop.other /\ cop.other[x] >= get(cop.self, x)
               THEN x \notin DOMAIN Now
               ELSE /\ x \in DOMAIN Now <=> x \in DOMAIN cop.self
                    /\ get(Now, x) = get(cop.self, x)
        /\ cop.other = cop.self => Now = VClockNew
        /\ cop.other = VClockNew => Now = cop.self

\* C18 witness: a subtract that removed one actor and kept the other, whose
\* counter in b was the smaller one
C18_Witness ==
    /\ cop.op = "subtract"
    /\ DOMAIN cop.self = {1, 2} /\ DOMAIN cop.other = {1, 2}
    /\ cop.other[1] >= cop.self[1]
    /\ cop.other[2] < cop.self[2]
    /\ DOMAIN Now = {2}

\* C23: a.intersection(b) holds exactly the dots that a and b both store
\* with the same counter.
C23_IntersectionIsCommonDots ==
    cop.op = "intersection" =>
        LET a == cop.self
            b == cop.other
            common == {x \in (DOMAIN a) \cap (DOMAIN b) : a[x] = b[x]}
        IN cop.out = [x \in common |-> a[x]]

\* C35: in every clock built from the empty clock by the calls of VClock,
\* every stored counter is at least 1, so is_empty() holds exactly when
\* get(actor) is 0 for every actor.
C35_StoredCountersPositive ==
    \A c \in {ca, cb} :
        /\ \A actor \in DOMAIN c : c[actor] >= 1
        /\ is_empty(c) <=> \A actor \in Actors : get(c, actor) = 0

(***************************************************************************)
(* SpecFromIter: a list of dots is put together (cop.iter), collected into *)
(* the clock ca, and the dots of ca are collected into the clock cb.       *)
(***************************************************************************)
\* the dots a list can hold
Dots == Actors \X (0 .. MaxCounter)

\* one more (actor, counter) pair at the end of the list
PushDot ==
    \E dot \in Dots :
        /\ cop.op = "none"
        /\ Len(cop.iter) < MaxDots
        /\ cop' = [cop EXCEPT !.iter = Append(cop.iter, dot)]
        /\ UNCHANGED <<ca, cb, cc, checked, lseqVars, replicaVars>>

\* ca = iter.collect()
FromIterOp ==
    /\ cop.op = "none"
    /\ ca' = from_iter(cop.iter)
    /\ cop' = [cop EXCEPT !.op = "from_iter"]
    /\ UNCHANGED <<cb, cc, checked, lseqVars, replicaVars>>

\* cb = ca.into_iter().collect()
CollectOp ==
    /\ cop.op = "from_iter"
    /\ cb' = from_iter(into_iter(ca))
    /\ cop' = [cop EXCEPT !.op = "collect"]
    /\ UNCHANGED <<ca, cc, checked, lseqVars, replicaVars>>

NextFromIter == PushDot \/ FromIterOp \/ CollectOp

SpecFromIter == Init /\ [][NextFromIter]_vars

\* the items of a list in reverse order
Reverse(iter) == [i \in 1 .. Len(iter) |-> iter[Len(iter) + 1 - i]]

\* C19: a list of dots collects into the same clock forwards, backwards and
\* followed by itself, and the dots of a clock collect into the same clock.
C19_FromIterOrderFree ==
    /\ cop.op \in {"from_iter", "collect"} =>
           /\ ca = from_iter(Reverse(cop.iter))
           /\ ca = from_iter(cop.iter \o cop.iter)
    /\ cop.op = "collect" => cb = ca

\* C19 witness: a list that names one actor twice, the smaller counter
\* first, and another actor was collected, and so were the dots of the clock
C19_Witness ==
    /\ cop.op = "collect"
    /\ \E i, j \in 1 .. Len(cop.iter) :
          /\ i < j
          /\ cop.iter[i][1] = cop.iter[j][1]
          /\ cop.iter[i][2] < cop.iter[j][2]
    /\ DOMAIN ca = Actors
====
